---- MODULE Spec2Model ----
(***************************************************************************)
(* The two Flask OCR services of the repository (src/app.py: /upload,      *)
(* /ocr/process, /ocr/batch; src/main.py: /ocr, /ocr-with-image,           *)
(* /download/<filename>) as a state machine.                               *)
(*                                                                         *)
(* The state is the three directories the services use and, per serving    *)
(* thread, the position of the request it is handling and the handler's    *)
(* local variables.  Every step is one stretch of handler code between two *)
(* accesses to the shared file system, so that requests served by          *)
(* different threads interleave as they do under Flask's threaded server.  *)
(*                                                                         *)
(* Conventions.  A file name is the sequence of its pieces ("scan.jpg" is  *)
(* <<"scan", "jpg">>, the empty string is <<"">>).  A recognition score is *)
(* a number of 64ths (exactly representable floats), a confidence a number *)
(* of hundredths, a polygon coordinate a number of half pixels.            *)
(* uuid.uuid4() is modelled as a generator of values never returned        *)
(* before.                                                                 *)
(***************************************************************************)
EXTENDS Integers, Sequences, FiniteSets

\* ------------------------------------------------------------- bounds
MaxRegions == 1
MaxBatch == 2
MaxRequests == 2

Threads == {1, 2}

\* ------------------------------------------------- images and the engine
Box1 == << <<21, 40>>, <<201, 41>>, <<200, 99>>, <<20, 98>> >>
Box2 == << <<20, 121>>, <<151, 120>>, <<150, 161>>, <<21, 160>> >>

\* What a picture shows: text regions with the score the engine gives them.
Regions ==
    { [text |-> "A", score |-> 5,  box |-> Box1],
      [text |-> "B", score |-> 64, box |-> Box2] }

RECURSIVE SeqsUpTo(_, _)
SeqsUpTo(S, n) ==
    IF n = 0 THEN { <<>> }
    ELSE LET shorter == SeqsUpTo(S, n - 1)
         IN  shorter \cup { Append(s, x) : s \in shorter, x \in S }

Images == SeqsUpTo(Regions, MaxRegions)

\* ocr.predict(path)[0]: parallel sequences, one entry per detected region.
EngineResult(img) ==
    [ rec_texts  |-> [i \in 1..Len(img) |-> img[i].text],
      rec_scores |-> [i \in 1..Len(img) |-> img[i].score],
      rec_polys  |-> [i \in 1..Len(img) |-> img[i].box] ]

\* How a call of the engine can end: a result, an exception, or a result
\* that lacks a key the handler reads.
EngineFaults == {"none", "raise", "no_rec_texts", "no_rec_polys"}

MissingKey(fault) ==
    CASE fault = "no_rec_texts" -> {"rec_texts"}
      [] fault = "no_rec_polys" -> {"rec_polys"}
      [] OTHER -> {}

\* ----------------------------------------------------- pure helpers
Min2(a, b) == IF a <= b THEN a ELSE b

\* round(n / d) to the nearest integer, ties to even (Python's round and
\* its ".2f" format on an exactly represented value), n >= 0, d > 0.
RoundHalfEven(n, d) ==
    LET q == n \div d
        r == n % d
    IN  IF 2 * r < d THEN q
        ELSE IF 2 * r > d THEN q + 1
        ELSE IF q % 2 = 0 THEN q ELSE q + 1

\* Mutant of Round2: the score cut to two decimals, int(score * 100) / 100.
Round2Truncate(score) == (100 * score) \div 64

\* round(float(score), 2) in hundredths, score in 64ths.
Round2(score) == RoundHalfEven(100 * score, 64)

\* int(point[k]) of a non-negative coordinate given in half pixels.
IntTrunc(c) == c \div 2

IntBox(box) == [j \in 1..Len(box) |-> <<IntTrunc(box[j][1]), IntTrunc(box[j][2])>>]

RECURSIVE SumSeq(_)
SumSeq(s) == IF s = <<>> THEN 0 ELSE Head(s) + SumSeq(Tail(s))

\* " ".join(texts), as the sequence of its pieces.
RECURSIVE Join(_)
Join(texts) ==
    IF Len(texts) <= 1 THEN texts
    ELSE <<Head(texts), " ">> \o Join(Tail(texts))

\* round(float(sum(scores) / len(scores) if scores else 0.0), 2), hundredths.
AvgConfidence(scores) ==
    IF Len(scores) = 0 THEN 0
    ELSE RoundHalfEven(100 * SumSeq(scores), 64 * Len(scores))

\* The loop over enumerate(zip(texts, scores, boxes)).
FormatResults(texts, scores, boxes) ==
    [ i \in 1..Min2(Len(texts), Min2(Len(scores), Len(boxes))) |->
        [ index      |-> i,
          text       |-> texts[i],
          confidence |-> Round2(scores[i]),
          box        |-> IntBox(boxes[i]) ] ]

\* The loop over enumerate(zip(texts, scores)) of /ocr-with-image.
FormatResultsNoBox(texts, scores) ==
    [ i \in 1..Min2(Len(texts), Len(scores)) |->
        [ index      |-> i,
          text       |-> texts[i],
          confidence |-> Round2(scores[i]) ] ]

\* What /ocr-with-image draws: per region its polygon and "text (score:.2f)".
Annotations(texts, scores, boxes) ==
    [ i \in 1..Min2(Len(texts), Min2(Len(scores), Len(boxes))) |->
        [ polygon |-> IntBox(boxes[i]),
          label   |-> <<texts[i], Round2(scores[i])>> ] ]

\* --------------------------------------------------------- file names
ALLOWED_EXTENSIONS == {"png", "jpg", "jpeg", "gif", "bmp"}

\* str.lower() on the pieces that occur.
Lower(s) ==
    CASE s = "JPG" -> "jpg"
      [] s = "PNG" -> "png"
      [] OTHER -> s

\* '.' in filename and filename.rsplit('.', 1)[1].lower() in ALLOWED_EXTENSIONS
allowed_file(filename) ==
    /\ Len(filename) >= 2
    /\ Lower(filename[Len(filename)]) \in ALLOWED_EXTENSIONS

EmptyFilename == <<"">>

\* The values uuid.uuid4() returns, in the order it returns them.
UuidPool == <<"u1", "u2", "u3", "u4", "u5", "u6", "u7", "u8", "u9", "u10", "u11", "u12">>

Uuid4(n) == UuidPool[n]

\* Mutant of TempFilename: the temporary file named after the uploaded
\* file, secure_filename(file.filename).
TempFilenameFromUpload(upload, u) == upload.filename

\* f"{uuid.uuid4()}.jpg", given the request's upload and the uuid drawn.
TempFilename(upload, u) == <<u, "jpg">>

\* f"result_{uuid.uuid4()}.jpg"
ResultImageName(u) == <<"result_", u, "jpg">>

\* os.path.splitext(name)[0]: the name without its last extension; a name
\* whose only dot leads it has none.
SplitextStem(name) ==
    IF Len(name) >= 2 /\ (\E k \in 1..(Len(name) - 1) : name[k] # "")
    THEN SubSeq(name, 1, Len(name) - 1)
    ELSE name

\* f"{os.path.splitext(os.path.basename(image_path))[0]}_ocr_result.json"
ResultFilename(image_path) == SplitextStem(image_path.name) \o <<"_ocr_result", "json">>

\* ------------------------------------------------------- directories
\* A directory is a set of entries [name, data], at most one per name.
Exists(dir, name) == \E e \in dir : e.name = name

Read(dir, name) == (CHOOSE e \in dir : e.name = name).data

\* open(path, 'w') / image.save(path): creates or replaces.
WriteFile(dir, name, data) ==
    { e \in dir : e.name # name } \cup { [name |-> name, data |-> data] }

\* Mutant of OsRemove: nothing is removed.
OsRemoveNothing(dir, name) == dir

\* os.remove(path)
OsRemove(dir, name) == { e \in dir : e.name # name }

\* ----------------------------------------- files on the server's disk
\* image_path values of /ocr/process and /ocr/batch.  str is FALSE for a
\* JSON value that is no string (null).
PathAX == [str |-> TRUE, dir |-> "a", name |-> <<"x", "jpg">>]
PathBX == [str |-> TRUE, dir |-> "b", name |-> <<"x", "jpg">>]
PathGone == [str |-> TRUE, dir |-> "a", name |-> <<"gone", "jpg">>]
PathNull == [str |-> FALSE, dir |-> "", name |-> <<>>]

ImgA == << [text |-> "A", score |-> 8, box |-> Box1] >>
ImgB == << [text |-> "B", score |-> 63, box |-> Box2], [text |-> "C", score |-> 40, box |-> Box1] >>

\* The image files that exist on the server.
ServerFiles == { [name |-> PathAX, data |-> ImgA], [name |-> PathBX, data |-> ImgB] }

PathInputs == {PathAX, PathBX, PathGone, PathNull}

\* os.path.exists(image_path) raises TypeError on a value that is no path.
ExistsRaises(image_path) == ~image_path.str

\* Mutant of os_path_exists: the check is passed by every path.
os_path_exists_always(image_path) == TRUE

os_path_exists(image_path) == Exists(ServerFiles, image_path)

\* What ocr.predict(image_path) is given: the image file at that path, if
\* there is one.
ServerContent(image_path) ==
    IF Exists(ServerFiles, image_path)
    THEN [owner |-> 0, image |-> Read(ServerFiles, image_path)]
    ELSE [owner |-> 0, image |-> <<>>]

\* ------------------------------------------------------------- state
VARIABLES
    uploads,      \* ./uploads (UPLOAD_DIR of both services): temporary files
    ocr_results,  \* ./ocr_results (RESULT_DIR of app.py): JSON artifacts
    results,      \* ./results (RESULT_DIR of main.py): annotated images
    uuids,        \* how many values uuid.uuid4() has returned
    served,       \* how many requests have been received
    pc,           \* per thread: where its handler stands
    req,          \* per thread: the request it handles
    loc           \* per thread: the handler's local variables and its response

vars == <<uploads, ocr_results, results, uuids, served, pc, req, loc>>

NoPath == <<>>
NoContent == [owner |-> 0, image |-> <<>>]
NoData == [no_data |-> TRUE]
NoBody == [no_body |-> TRUE]
NoRequest == [handler |-> "none"]

InitLoc ==
    [ rid         |-> 0,         \* which request this is
      dir_before  |-> {},        \* history: ./uploads when the request arrived
      temp_path   |-> NoPath,    \* temp_path
      temp_saved  |-> FALSE,     \* image.save(temp_path) has returned
      ocr_called  |-> FALSE,     \* ocr.predict has been called
      ocr_read    |-> NoContent, \* the file content ocr.predict was given
      data        |-> NoData,    \* texts, scores, boxes
      result_path |-> NoPath,    \* result_filename / result_path
      i           |-> 0,         \* position of the batch loop
      acc         |-> <<>>,      \* batch_results
      raised      |-> FALSE,     \* an exception was raised
      escaped     |-> FALSE,     \* ... and left the handler uncaught
      status      |-> 0,
      body        |-> NoBody ]

\* What the results directory of main.py holds when the service starts:
\* os.makedirs(RESULT_DIR, exist_ok=True) keeps what is there, and
\* os.path.join(RESULT_DIR, "..") names a directory.
InitialResults ==
    { [name |-> <<"..">>, data |-> [kind |-> "dir", image |-> <<>>, drawn |-> <<>>]],
      [name |-> <<"old", "jpg">>, data |-> [kind |-> "file", image |-> ImgA, drawn |-> <<>>]] }

Init ==
    /\ uploads = {}
    /\ ocr_results = {}
    /\ results = InitialResults
    /\ uuids = 0
    /\ served = 0
    /\ pc = [t \in Threads |-> "idle"]
    /\ req = [t \in Threads |-> NoRequest]
    /\ loc = [t \in Threads |-> InitLoc]

\* return jsonify(body), status
Respond(l, status, body) == [l EXCEPT !.status = status, !.body = body]

\* The body each handler's "except Exception" clause returns.
ErrorBody(h) ==
    CASE h = "/upload"    -> [error |-> "ocr_error", result |-> <<>>, confidence |-> 0]
      [] h = "/ocr/batch" -> [error |-> "batch_error"]
      [] OTHER            -> [error |-> "ocr_error"]

\* except Exception as e: return jsonify({"error": ...}), 500
Except500(l, h) == [Respond(l, 500, ErrorBody(h)) EXCEPT !.raised = TRUE]

\* ---------------------------------------- /upload, /ocr, /ocr-with-image
UploadHandlers == {"/upload", "/ocr", "/ocr-with-image"}

Filenames == { EmptyFilename, <<"scan", "JPG">>, <<"notes", "txt">> }

\* A multipart form: without a file field, or with a file that has a name
\* and is an image or bytes PIL cannot decode.
UploadRequests ==
    { [has_file |-> FALSE, filename |-> EmptyFilename, decodable |-> FALSE, image |-> <<>>] }
    \cup { [has_file |-> TRUE, filename |-> f, decodable |-> TRUE, image |-> im] :
             f \in Filenames, im \in Images }
    \cup { [has_file |-> TRUE, filename |-> f, decodable |-> FALSE, image |-> <<>>] :
             f \in Filenames }

\* Mutant of ValidateUpload: the empty filename is not checked.
ValidateUploadNoNameCheck(h, r) ==
    IF ~r.has_file THEN "no_file"
    ELSE IF h # "/upload" /\ ~allowed_file(r.filename) THEN "bad_type"
    ELSE "ok"

\* The checks before the temporary file: "ok" or the 400 they answer with.
ValidateUpload(h, r) ==
    IF ~r.has_file THEN "no_file"
    ELSE IF r.filename = EmptyFilename THEN "no_filename"
    ELSE IF h # "/upload" /\ ~allowed_file(r.filename) THEN "bad_type"
    ELSE "ok"

\* The keys of ocr.predict(...)[0] the handler reads.
KeysRead(h) ==
    IF h = "/upload" THEN {"rec_texts", "rec_scores"}
    ELSE {"rec_texts", "rec_scores", "rec_polys"}

\* Mutant of UploadExcept: the except clause removes the temporary file.
UploadExceptCleanup(t, l) ==
    /\ loc' = [loc EXCEPT ![t] = Except500(l, req[t].handler)]
    /\ pc' = [pc EXCEPT ![t] = "ret"]
    /\ uploads' = OsRemove(uploads, l.temp_path)

\* The except clause of an upload handler: it answers 500 and leaves the
\* uploads directory as it is.
UploadExcept(t, l) ==
    /\ loc' = [loc EXCEPT ![t] = Except500(l, req[t].handler)]
    /\ pc' = [pc EXCEPT ![t] = "ret"]
    /\ uploads' = uploads

\* A request arrives; the handler validates the form.
ReceiveUpload(t) ==
    /\ pc[t] = "idle"
    /\ served < MaxRequests
    /\ \E h \in UploadHandlers, r \in UploadRequests :
         LET v == ValidateUpload(h, r)
             l == [InitLoc EXCEPT !.rid = served + 1, !.dir_before = uploads]
         IN  /\ req' = [req EXCEPT ![t] = [handler |-> h, in |-> r]]
             /\ IF v = "ok"
                THEN /\ pc' = [pc EXCEPT ![t] = "save"]
                     /\ loc' = [loc EXCEPT ![t] = l]
                ELSE /\ pc' = [pc EXCEPT ![t] = "ret"]
                     /\ loc' = [loc EXCEPT ![t] = Respond(l, 400, [error |-> v])]
    /\ served' = served + 1
    /\ UNCHANGED <<uploads, ocr_results, results, uuids>>

\* temp_path = UPLOAD_DIR/<uuid4>.jpg; Image.open(...).convert; image.save
SaveTemp(t) ==
    /\ pc[t] = "save"
    /\ uuids < Len(UuidPool)
    /\ LET path == TempFilename(req[t].in, Uuid4(uuids + 1))
           l == [loc[t] EXCEPT !.temp_path = path]
       IN  IF req[t].in.decodable
           THEN /\ uploads' = WriteFile(uploads, path,
                                  [owner |-> loc[t].rid, image |-> req[t].in.image])
                /\ loc' = [loc EXCEPT ![t] = [l EXCEPT !.temp_saved = TRUE]]
                /\ pc' = [pc EXCEPT ![t] = "predict"]
           ELSE UploadExcept(t, l)
    /\ uuids' = uuids + 1
    /\ UNCHANGED <<ocr_results, results, served, req>>

\* The engine's answer with the keys a fault takes away.
PredictData(content, fault) ==
    LET full == EngineResult(content.image)
    IN  [k \in (DOMAIN full) \ MissingKey(fault) |-> full[k]]

\* The body of /upload and of /ocr, built before os.remove.
UploadBody(h, data) ==
    IF h = "/upload"
    THEN [ result     |-> Join(data.rec_texts),
           confidence |-> AvgConfidence(data.rec_scores) ]
    ELSE [ success     |-> TRUE,
           total_texts |-> Len(data.rec_texts),
           results     |-> FormatResults(data.rec_texts, data.rec_scores, data.rec_polys) ]

\* result = ocr.predict(temp_path) and the extraction of the result.
PredictUpload(t) ==
    /\ pc[t] = "predict"
    /\ req[t].handler \in UploadHandlers
    /\ \E fault \in EngineFaults :
         LET h == req[t].handler
             there == Exists(uploads, loc[t].temp_path)
             content == IF there THEN Read(uploads, loc[t].temp_path) ELSE NoContent
             l == [loc[t] EXCEPT !.ocr_called = TRUE, !.ocr_read = content]
             data == PredictData(content, fault)
         IN  IF ~there \/ fault = "raise" \/ ~(KeysRead(h) \subseteq DOMAIN data)
             THEN UploadExcept(t, l)
             ELSE /\ loc' = [loc EXCEPT ![t] =
                               [l EXCEPT !.data = data,
                                         !.body = IF h = "/ocr-with-image" THEN NoBody
                                                  ELSE UploadBody(h, data)]]
                  /\ pc' = [pc EXCEPT ![t] =
                               IF h = "/ocr-with-image" THEN "draw" ELSE "remove"]
                  /\ uploads' = uploads
    /\ UNCHANGED <<ocr_results, results, uuids, served, req>>

\* /ocr-with-image: draw the regions, image.save(result_path).
DrawAndSave(t) ==
    /\ pc[t] = "draw"
    /\ uuids < Len(UuidPool)
    /\ \E ok \in BOOLEAN :
         LET name == ResultImageName(Uuid4(uuids + 1))
             d == loc[t].data
         IN  IF ok
             THEN /\ results' = WriteFile(results, name,
                                    [ kind  |-> "file",
                                      image |-> req[t].in.image,
                                      drawn |-> Annotations(d.rec_texts, d.rec_scores, d.rec_polys) ])
                  /\ uuids' = uuids + 1
                  /\ loc' = [loc EXCEPT ![t].result_path = name]
                  /\ pc' = [pc EXCEPT ![t] = "remove"]
                  /\ uploads' = uploads
             ELSE /\ UploadExcept(t, loc[t])
                  /\ UNCHANGED <<results, uuids>>
    /\ UNCHANGED <<ocr_results, served, req>>

\* The body /ocr-with-image builds after os.remove.
WithImageBody(data, result_filename) ==
    [ success          |-> TRUE,
      total_texts      |-> Len(data.rec_texts),
      results          |-> FormatResultsNoBox(data.rec_texts, data.rec_scores),
      result_image_url |-> <<"/download/">> \o result_filename ]

\* os.remove(temp_path), then the 200 response.
RemoveTemp(t) ==
    /\ pc[t] = "remove"
    /\ IF Exists(uploads, loc[t].temp_path)
       THEN /\ uploads' = OsRemove(uploads, loc[t].temp_path)
            /\ loc' = [loc EXCEPT ![t] =
                         Respond(loc[t], 200,
                                 IF req[t].handler = "/ocr-with-image"
                                 THEN WithImageBody(loc[t].data, loc[t].result_path)
                                 ELSE loc[t].body)]
            /\ pc' = [pc EXCEPT ![t] = "ret"]
       ELSE UploadExcept(t, loc[t])
    /\ UNCHANGED <<ocr_results, results, uuids, served, req>>

\* ------------------------------------------------------- /ocr/process
SaveResultValues == {"absent", "true", "false"}

\* save_result = data.get('save_result', True), as the truth value tested.
SaveResult(v) == v # "false"

\* The JSON body of a request: one request.get_json() cannot parse, an
\* empty one, an object without the key the handler needs, or one with it.
BadBodies == {"unparsable", "empty", "no_key"}

ProcessRequests ==
    { [body |-> b, image_path |-> PathNull, save_result |-> "absent"] : b \in BadBodies }
    \cup { [body |-> "ok", image_path |-> p, save_result |-> v] :
             p \in PathInputs, v \in SaveResultValues }

\* response_data / result_data, built from the engine's result.
ResultData(image_path, data) ==
    [ success     |-> TRUE,
      image_path  |-> image_path,
      total_texts |-> Len(data.rec_texts),
      results     |-> FormatResults(data.rec_texts, data.rec_scores, data.rec_polys) ]

\* response_data["result_saved_to"] = result_path
WithSavedTo(d, result_path) ==
    [ success         |-> d.success,
      image_path      |-> d.image_path,
      total_texts     |-> d.total_texts,
      results         |-> d.results,
      result_saved_to |-> result_path ]

\* The request arrives: get_json, the image_path check, os.path.exists.
ReceiveProcess(t) ==
    /\ pc[t] = "idle"
    /\ served < MaxRequests
    /\ \E r \in ProcessRequests :
         LET l == [InitLoc EXCEPT !.rid = served + 1]
         IN  /\ req' = [req EXCEPT ![t] = [handler |-> "/ocr/process", in |-> r]]
             /\ IF r.body = "unparsable" \/ (r.body = "ok" /\ ExistsRaises(r.image_path))
                THEN /\ loc' = [loc EXCEPT ![t] = Except500(l, "/ocr/process")]
                     /\ pc' = [pc EXCEPT ![t] = "ret"]
                ELSE IF r.body # "ok"
                THEN /\ loc' = [loc EXCEPT ![t] =
                                  Respond(l, 400, [error |-> "image_path_required"])]
                     /\ pc' = [pc EXCEPT ![t] = "ret"]
                ELSE IF ~os_path_exists(r.image_path)
                THEN /\ loc' = [loc EXCEPT ![t] =
                                  Respond(l, 404, [error |-> "image_not_found"])]
                     /\ pc' = [pc EXCEPT ![t] = "ret"]
                ELSE /\ loc' = [loc EXCEPT ![t] = l]
                     /\ pc' = [pc EXCEPT ![t] = "predict"]
    /\ served' = served + 1
    /\ UNCHANGED <<uploads, ocr_results, results, uuids>>

\* result = ocr.predict(image_path), the extraction and response_data.
PredictProcess(t) ==
    /\ pc[t] = "predict"
    /\ req[t].handler = "/ocr/process"
    /\ \E fault \in EngineFaults :
         LET r == req[t].in
             content == ServerContent(r.image_path)
             l == [loc[t] EXCEPT !.ocr_called = TRUE, !.ocr_read = content]
             data == PredictData(content, fault)
         IN  IF \/ ~Exists(ServerFiles, r.image_path)
                \/ fault = "raise"
                \/ ~(KeysRead("/ocr/process") \subseteq DOMAIN data)
             THEN /\ loc' = [loc EXCEPT ![t] = Except500(l, "/ocr/process")]
                  /\ pc' = [pc EXCEPT ![t] = "ret"]
             ELSE IF SaveResult(r.save_result)
             THEN /\ loc' = [loc EXCEPT ![t] =
                               [l EXCEPT !.data = data,
                                         !.body = ResultData(r.image_path, data)]]
                  /\ pc' = [pc EXCEPT ![t] = "write"]
             ELSE /\ loc' = [loc EXCEPT ![t] =
                               Respond([l EXCEPT !.data = data], 200,
                                       ResultData(r.image_path, data))]
                  /\ pc' = [pc EXCEPT ![t] = "ret"]
    /\ UNCHANGED <<uploads, ocr_results, results, uuids, served, req>>

\* with open(result_path, 'w') as f: json.dump(response_data, f)
WriteResult(t) ==
    /\ pc[t] = "write"
    /\ \E ok \in BOOLEAN :
         LET result_path == ResultFilename(req[t].in.image_path)
         IN  IF ok
             THEN /\ ocr_results' = WriteFile(ocr_results, result_path, loc[t].body)
                  /\ loc' = [loc EXCEPT ![t] =
                               Respond([loc[t] EXCEPT !.result_path = result_path], 200,
                                       WithSavedTo(loc[t].body, result_path))]
             ELSE /\ ocr_results' = ocr_results
                  /\ loc' = [loc EXCEPT ![t] = Except500(loc[t], "/ocr/process")]
    /\ pc' = [pc EXCEPT ![t] = "ret"]
    /\ UNCHANGED <<uploads, results, uuids, served, req>>

\* --------------------------------------------------------- /ocr/batch
BatchRequests ==
    { [body |-> b, image_paths |-> <<>>, save_result |-> "absent"] : b \in BadBodies }
    \cup { [body |-> "ok", image_paths |-> ps, save_result |-> v] :
             ps \in SeqsUpTo(PathInputs, MaxBatch), v \in SaveResultValues }

\* The entry of batch_results for an image that was not processed.
FailedItem(image_path, error) ==
    [image_path |-> image_path, success |-> FALSE, error |-> error]

\* The request arrives: get_json and the image_paths check.
ReceiveBatch(t) ==
    /\ pc[t] = "idle"
    /\ served < MaxRequests
    /\ \E r \in BatchRequests :
         LET l == [InitLoc EXCEPT !.rid = served + 1]
         IN  /\ req' = [req EXCEPT ![t] = [handler |-> "/ocr/batch", in |-> r]]
             /\ IF r.body = "unparsable"
                THEN /\ loc' = [loc EXCEPT ![t] = Except500(l, "/ocr/batch")]
                     /\ pc' = [pc EXCEPT ![t] = "ret"]
                ELSE IF r.body # "ok"
                THEN /\ loc' = [loc EXCEPT ![t] =
                                  Respond(l, 400, [error |-> "image_paths_required"])]
                     /\ pc' = [pc EXCEPT ![t] = "ret"]
                ELSE /\ loc' = [loc EXCEPT ![t] = [l EXCEPT !.i = 1]]
                     /\ pc' = [pc EXCEPT ![t] = "loop"]
    /\ served' = served + 1
    /\ UNCHANGED <<uploads, ocr_results, results, uuids>>

\* One turn of "for image_path in image_paths".
BatchItem(t) ==
    /\ pc[t] = "loop"
    /\ loc[t].i <= Len(req[t].in.image_paths)
    /\ LET r == req[t].in
           image_path == r.image_paths[loc[t].i]
           next(l, item) == [l EXCEPT !.i = @ + 1, !.acc = Append(@, item)]
       IN  IF ExistsRaises(image_path)
           THEN \* os.path.exists stands outside the inner try
                /\ loc' = [loc EXCEPT ![t] = Except500(loc[t], "/ocr/batch")]
                /\ pc' = [pc EXCEPT ![t] = "ret"]
                /\ ocr_results' = ocr_results
           ELSE IF ~os_path_exists(image_path)
           THEN /\ loc' = [loc EXCEPT ![t] =
                             next(loc[t], FailedItem(image_path, "not_found"))]
                /\ pc' = pc
                /\ ocr_results' = ocr_results
           ELSE \E fault \in EngineFaults, ok \in BOOLEAN :
                  LET content == ServerContent(image_path)
                      l == [loc[t] EXCEPT !.ocr_called = TRUE, !.ocr_read = content]
                      data == PredictData(content, fault)
                      result_path == ResultFilename(image_path)
                  IN  /\ pc' = pc
                      /\ IF ~Exists(ServerFiles, image_path)
                            \/ fault = "raise"
                            \/ ~(KeysRead("/ocr/batch") \subseteq DOMAIN data)
                            \/ (SaveResult(r.save_result) /\ ~ok)
                         THEN /\ loc' = [loc EXCEPT ![t] =
                                           next(l, FailedItem(image_path, "exception"))]
                              /\ ocr_results' = ocr_results
                         ELSE IF SaveResult(r.save_result)
                         THEN /\ ocr_results' = WriteFile(ocr_results, result_path,
                                                          ResultData(image_path, data))
                              /\ loc' = [loc EXCEPT ![t] =
                                           next(l, WithSavedTo(ResultData(image_path, data),
                                                               result_path))]
                         ELSE /\ ocr_results' = ocr_results
                              /\ loc' = [loc EXCEPT ![t] =
                                           next(l, ResultData(image_path, data))]
    /\ UNCHANGED <<uploads, results, uuids, served, req>>

\* The loop is over: the aggregate response.
BatchFinish(t) ==
    /\ pc[t] = "loop"
    /\ loc[t].i > Len(req[t].in.image_paths)
    /\ loc' = [loc EXCEPT ![t] =
                 Respond(loc[t], 200,
                         [ success         |-> TRUE,
                           total_processed |-> Len(loc[t].acc),
                           results         |-> loc[t].acc ])]
    /\ pc' = [pc EXCEPT ![t] = "ret"]
    /\ UNCHANGED <<uploads, ocr_results, results, uuids, served, req>>

\* ----------------------------------------------- /download/<filename>
DownloadNames ==
    { <<"..">>, <<"old", "jpg">>, <<"missing", "jpg">> }
    \cup { ResultImageName(Uuid4(n)) : n \in 1..uuids }

\* Mutant of DownloadResponse: no existence check before send_file, so a
\* missing file is an exception that leaves the handler.
DownloadResponseUnchecked(l, filename) ==
    IF Exists(results, filename) /\ Read(results, filename).kind = "file"
    THEN Respond(l, 200, [mimetype |-> "image/jpeg", bytes |-> Read(results, filename)])
    ELSE [Respond(l, 500, [html |-> "Internal Server Error"])
            EXCEPT !.raised = TRUE, !.escaped = TRUE]

\* What download_result answers: 404 when os.path.exists fails, else
\* send_file(file_path, mimetype='image/jpeg'); send_file raises on a
\* directory, and nothing catches it.
DownloadResponse(l, filename) ==
    IF ~Exists(results, filename)
    THEN Respond(l, 404, [error |-> "file_not_found"])
    ELSE IF Read(results, filename).kind = "file"
    THEN Respond(l, 200, [mimetype |-> "image/jpeg", bytes |-> Read(results, filename)])
    ELSE [Respond(l, 500, [html |-> "Internal Server Error"])
            EXCEPT !.raised = TRUE, !.escaped = TRUE]

\* A GET /download/<filename> is served in one step.
download_result(t) ==
    /\ pc[t] = "idle"
    /\ served < MaxRequests
    /\ \E filename \in DownloadNames :
         LET l == [InitLoc EXCEPT !.rid = served + 1]
         IN  /\ req' = [req EXCEPT ![t] = [handler |-> "/download", in |-> filename]]
             /\ loc' = [loc EXCEPT ![t] = DownloadResponse(l, filename)]
    /\ pc' = [pc EXCEPT ![t] = "ret"]
    /\ served' = served + 1
    /\ UNCHANGED <<uploads, ocr_results, results, uuids>>

\* ------------------------------------------------------- / and /health
\* home (both services) and health: a constant JSON body.
home(t) ==
    /\ pc[t] = "idle"
    /\ served < MaxRequests
    /\ \E h \in {"/", "/health"} :
         /\ req' = [req EXCEPT ![t] = [handler |-> h, in |-> <<>>]]
         /\ loc' = [loc EXCEPT ![t] =
                      Respond([InitLoc EXCEPT !.rid = served + 1], 200,
                              [status |-> "healthy"])]
    /\ pc' = [pc EXCEPT ![t] = "ret"]
    /\ served' = served + 1
    /\ UNCHANGED <<uploads, ocr_results, results, uuids>>

\* The response leaves; the thread is free for the next request.
Return(t) ==
    /\ pc[t] = "ret"
    /\ pc' = [pc EXCEPT ![t] = "idle"]
    /\ req' = [req EXCEPT ![t] = NoRequest]
    /\ loc' = [loc EXCEPT ![t] = InitLoc]
    /\ UNCHANGED <<uploads, ocr_results, results, uuids, served>>

Step(t) ==
    \/ ReceiveUpload(t)
    \/ SaveTemp(t)
    \/ PredictUpload(t)
    \/ DrawAndSave(t)
    \/ RemoveTemp(t)
    \/ ReceiveProcess(t)
    \/ PredictProcess(t)
    \/ WriteResult(t)
    \/ ReceiveBatch(t)
    \/ BatchItem(t)
    \/ BatchFinish(t)
    \/ download_result(t)
    \/ home(t)
    \/ Return(t)

\* Requests are served by concurrent threads.
Next == \E t \in Threads : Step(t)

Spec == Init /\ [][Next]_vars

\* One request at a time: a thread moves only while the others are idle.
Alone(t) == \A u \in Threads \ {t} : pc[u] = "idle"

NextSeq ==
    \E t \in Threads :
        \/ Alone(t) /\ ReceiveUpload(t)
        \/ Alone(t) /\ SaveTemp(t)
        \/ Alone(t) /\ PredictUpload(t)
        \/ Alone(t) /\ DrawAndSave(t)
        \/ Alone(t) /\ RemoveTemp(t)
        \/ Alone(t) /\ ReceiveProcess(t)
        \/ Alone(t) /\ PredictProcess(t)
        \/ Alone(t) /\ WriteResult(t)
        \/ Alone(t) /\ ReceiveBatch(t)
        \/ Alone(t) /\ BatchItem(t)
        \/ Alone(t) /\ BatchFinish(t)
        \/ Alone(t) /\ download_result(t)
        \/ Alone(t) /\ home(t)
        \/ Alone(t) /\ Return(t)

SpecSeq == Init /\ [][NextSeq]_vars

\* ============================================================ claims
AtRet(t) == pc[t] = "ret"

HasError(t) == "error" \in DOMAIN loc[t].body

\* c hundredths is s 64ths rounded to two decimals: |c/100 - s/64| <= 0.005.
IsRounded2(c, s) == 64 * c - 100 * s <= 32 /\ 100 * s - 64 * c <= 32

\* The records a successful per-region response carries for the engine
\* output d: one per text, numbered from 1 in detection order.
RecordsMatch(records, total_texts, d) ==
    /\ Len(records) = Len(d.rec_texts)
    /\ total_texts = Len(d.rec_texts)
    /\ \A i \in 1..Len(d.rec_texts) :
         /\ records[i].index = i
         /\ records[i].text = d.rec_texts[i]
         /\ IsRounded2(records[i].confidence, d.rec_scores[i])
         /\ records[i].confidence >= 0
         /\ records[i].confidence <= 100

\* C1: a /ocr/batch request whose body carries a list image_paths is
\* answered 200 with one outcome per input path, in input order, and an
\* outcome is a failure only for a path that does not exist or whose
\* processing raised; no item's failure aborts the batch.
C1_BatchOneOutcomePerPath ==
    \A t \in Threads :
        (AtRet(t) /\ req[t].handler = "/ocr/batch" /\ req[t].in.body = "ok") =>
            LET ps == req[t].in.image_paths
                b == loc[t].body
            IN  /\ loc[t].status = 200
                /\ b.total_processed = Len(ps)
                /\ Len(b.results) = Len(ps)
                /\ \A k \in 1..Len(ps) :
                     /\ b.results[k].image_path = ps[k]
                     /\ ~b.results[k].success =>
                          \/ ~os_path_exists(ps[k])
                          \/ b.results[k].error = "exception"

\* C2: when an upload handler answers 200, the temporary file of the
\* request is gone and ./uploads holds what it held when the request
\* arrived (requests served one at a time).
C2_TempFileGoneAfter200 ==
    \A t \in Threads :
        (AtRet(t) /\ req[t].handler \in UploadHandlers /\ loc[t].status = 200) =>
            /\ loc[t].temp_saved
            /\ ~Exists(uploads, loc[t].temp_path)
            /\ uploads = loc[t].dir_before

C2_Witness ==
    \E t \in Threads :
        /\ AtRet(t)
        /\ req[t].handler = "/upload"
        /\ loc[t].status = 200
        /\ loc[t].temp_saved
        /\ loc[t].dir_before # {}

\* The temporary files whose request will never reach os.remove: no
\* handler between image.save and os.remove holds their path.
Leaked ==
    { e \in uploads :
        \A t \in Threads :
            ~(pc[t] \in {"predict", "draw", "remove"} /\ loc[t].temp_path = e.name) }

\* C3: an exception raised in an upload handler after the temporary file
\* was written and before os.remove ends the request with 500 and the
\* file still in ./uploads, and no later step of any request removes or
\* changes a file left behind.
C3_TempFileLeaksOnException ==
    [][ /\ \A t \in Threads :
             ( /\ pc'[t] = "ret"
               /\ req'[t].handler \in UploadHandlers
               /\ loc'[t].raised
               /\ loc'[t].temp_saved ) =>
                 /\ loc'[t].status = 500
                 /\ "error" \in DOMAIN loc'[t].body
                 /\ Exists(uploads', loc'[t].temp_path)
        /\ \A e \in Leaked : e \in uploads' ]_vars

C3_Witness ==
    \E t \in Threads, e \in Leaked :
        /\ AtRet(t)
        /\ req[t].handler \in UploadHandlers
        /\ loc[t].status = 200
        /\ loc[t].rid > e.data.owner
        /\ \A u \in Threads : loc[u].rid # e.data.owner

\* C4: every successful per-region response (/ocr, /ocr/process,
\* /ocr-with-image, each successful /ocr/batch outcome) carries one record
\* per text of the engine's output, numbered 1..n in detection order with
\* that text, total_texts = n, and each confidence is the score rounded to
\* two decimals, within [0, 1].
C4_OneRecordPerRegion ==
    \A t \in Threads :
        /\ ( /\ AtRet(t)
             /\ loc[t].status = 200
             /\ req[t].handler \in {"/ocr", "/ocr/process", "/ocr-with-image"} ) =>
               RecordsMatch(loc[t].body.results, loc[t].body.total_texts, loc[t].data)
        /\ (pc[t] \in {"loop", "ret"} /\ req[t].handler = "/ocr/batch") =>
               \A k \in 1..Len(loc[t].acc) :
                   loc[t].acc[k].success =>
                       RecordsMatch(loc[t].acc[k].results, loc[t].acc[k].total_texts,
                                    EngineResult(ServerContent(loc[t].acc[k].image_path).image))

C4_Witness ==
    \E t \in Threads :
        /\ AtRet(t)
        /\ loc[t].status = 200
        /\ req[t].handler = "/ocr/process"
        /\ Len(loc[t].body.results) = 2
        /\ loc[t].body.results[1].confidence = 98
        /\ loc[t].body.results[2].confidence = 62

\* C5: in every handler, a failure that is no validation check ends as
\* status 500 with a JSON body carrying an error message, validation
\* failures as 400 or 404 with an error message, and no exception leaves
\* a handler.
C5_FailuresBecomeJson500 ==
    \A t \in Threads :
        AtRet(t) =>
            /\ ~loc[t].escaped
            /\ loc[t].status \in {200, 400, 404, 500}
            /\ loc[t].raised => (loc[t].status = 500 /\ HasError(t))
            /\ loc[t].status # 200 => HasError(t)

\* C6: an upload without a file field, or with an empty filename, is
\* answered 400 with an error field before a temporary file is created
\* and before the engine is called.
C6_NoFileIs400 ==
    \A t \in Threads :
        ( /\ req[t].handler \in UploadHandlers
          /\ (~req[t].in.has_file \/ req[t].in.filename = EmptyFilename) ) =>
            /\ AtRet(t)
            /\ loc[t].status = 400
            /\ HasError(t)
            /\ loc[t].temp_path = NoPath
            /\ ~loc[t].temp_saved
            /\ ~loc[t].ocr_called
            /\ \A e \in uploads : e.data.owner # loc[t].rid

C6_Witness ==
    \E t \in Threads :
        /\ AtRet(t) /\ req[t].handler = "/ocr-with-image"
        /\ req[t].in.has_file /\ req[t].in.filename = EmptyFilename
        /\ loc[t].status = 400
        /\ loc[t].rid > 1

\* C7: /ocr/process with an image_path that names no existing file is
\* answered 404 with an error field, the engine is not called and no
\* artifact is written, whatever save_result is.
C7_MissingPathIs404 ==
    \A t \in Threads :
        ( /\ req[t].handler = "/ocr/process"
          /\ req[t].in.body = "ok"
          /\ req[t].in.image_path.str
          /\ ~Exists(ServerFiles, req[t].in.image_path) ) =>
            /\ AtRet(t)
            /\ loc[t].status = 404
            /\ HasError(t)
            /\ ~loc[t].ocr_called
            /\ loc[t].result_path = NoPath
            /\ ~Exists(ocr_results, ResultFilename(req[t].in.image_path))

C7_Witness ==
    \E t \in Threads :
        /\ AtRet(t)
        /\ req[t].handler = "/ocr/process"
        /\ req[t].in.image_path = PathGone
        /\ req[t].in.save_result = "true"
        /\ loc[t].status = 404

C9_TempFileOwnedByOneRequest ==
    [][ \A t \in Threads :
          /\ (loc[t].temp_path = NoPath /\ loc'[t].temp_path # NoPath) =>
                /\ ~Exists(uploads, loc'[t].temp_path)
                /\ \A u \in Threads \ {t} : loc[u].temp_path # loc'[t].temp_path
          /\ (req'[t].handler \in UploadHandlers /\ loc'[t].ocr_called) =>
                /\ loc'[t].ocr_read.owner = loc'[t].rid
                /\ loc'[t].ocr_read.image = req'[t].in.image
          /\ pc'[t] # pc[t] =>
                \A e \in uploads : e \notin uploads' => e.data.owner = loc[t].rid ]_vars

C9_Witness ==
    \E t \in Threads, u \in Threads :
        /\ t # u
        /\ pc[t] = "remove" /\ loc[t].ocr_called
        /\ pc[u] = "predict"
        /\ Exists(uploads, loc[t].temp_path)
        /\ Exists(uploads, loc[u].temp_path)

\* What the artifact at result_path must hold for the outcome d that
\* reports it: d's image_path and d's result records.
ArtifactHolds(d) ==
    /\ Exists(ocr_results, d.result_saved_to)
    /\ Read(ocr_results, d.result_saved_to).image_path = d.image_path
    /\ Read(ocr_results, d.result_saved_to).results = d.results

\* C10: when /ocr/process, or a successful /ocr/batch outcome, reports
\* result_saved_to = P, the artifact at P holds the image_path and the
\* result records of that request when the response is returned.
C10_ArtifactHoldsOwnResult ==
    \A t \in Threads :
        AtRet(t) /\ loc[t].status = 200 =>
            /\ (req[t].handler = "/ocr/process"
                  /\ "result_saved_to" \in DOMAIN loc[t].body) =>
                   ArtifactHolds(loc[t].body)
            /\ req[t].handler = "/ocr/batch" =>
                   \A k \in 1..Len(loc[t].body.results) :
                       "result_saved_to" \in DOMAIN loc[t].body.results[k] =>
                           ArtifactHolds(loc[t].body.results[k])

====
